---- MODULE Spec2Model ----
(***************************************************************************)
(* Model of package analysis (src/analysis.go): the response-time analysis *)
(* of call chains over an event log (Analyze), the event-log reader        *)
(* (ReadEvents / parse_event) and the chain catalog writer (WriteChains).  *)
(*                                                                         *)
(* Go's int is modelled as a mathematical integer: the inputs drawn below  *)
(* are far inside the int range, so no sum or difference wraps.            *)
(***************************************************************************)
EXTENDS Integers, Sequences, FiniteSets, TLC

VARIABLES
    \* ---- Analyze(chains, events) ----
    chains,      \* argument: the chain catalog
    events,      \* argument: the parsed event sequence
    ci,          \* position of "for _, chain := range chains" (1-based)
    results,     \* var results []Result
    stderr,      \* the messages written to os.Stderr, in order
    locals,      \* per analysed chain: the loop body's local variables
    status,      \* "idle" | "running" | "done" | "panic"
    \* ---- two runs of Analyze on an input and its one-callback variant ----
    fchain, fevents, fflipped, run1, run2, fpc,
    \* ---- ReadEvents(filepath) ----
    fileLen,     \* number of lines of the file
    openOk,      \* whether os.Open succeeds
    failAt,      \* the ReadLine call that ends in a read error (0: none)
    file,        \* the lines handed out by ReadLine so far
    n,           \* the loop counter n of ReadEvents
    revents,     \* var events []Event of ReadEvents
    err,         \* the function-scope variable err of ReadEvents
    rret,        \* the returned pair (events, error)
    rpc,         \* "idle" | "open" | "loop" | "after" | "returned"
    \* ---- WriteChains(...) ----
    wargs,       \* the parallel argument slices
    cs,          \* var cs Chains
    wid,         \* position of "for id, _ := range chains" (0-based)
    disk,        \* the catalog file: whether it exists, and its content
    wret,        \* the returned error ("nil": none), "pending" before the return
    wpc          \* "idle" | "build" | "write" | "returned" | "panic"

avars == <<chains, events, ci, results, stderr, locals, status>>
fvars == <<fchain, fevents, fflipped, run1, run2, fpc>>
rvars == <<fileLen, openOk, failAt, file, n, revents, err, rret, rpc>>
wvars == <<wargs, cs, wid, disk, wret, wpc>>
vars == <<avars, fvars, rvars, wvars>>

\* ------------------------------------------------------------------------
\* Bounds and input domains
\* ------------------------------------------------------------------------
MaxEvents == 3
MaxLines == 2
MaxLineLen == 3
MaxSlice == 2

ChainIDs == {0, 1}
Callbacks == {1, 2}
Paths == {<<>>, <<1>>, <<1, 2>>}
\* (Start_us, Duration_us) pairs; a negative duration or a decreasing start
\* is accepted by the %d verbs of parse_event
Stamps == {<<0, 2>>, <<4, -3>>}

Chain == [ID : ChainIDs, Path : Paths]
Event == {[Executor |-> 0, Chain |-> c, Callback |-> cb,
           Start_us |-> st[1], Duration_us |-> st[2]] :
              c \in ChainIDs, cb \in Callbacks, st \in Stamps}

SeqsUpTo(S, k) == UNION {[1..m -> S] : m \in 0..k}

\* catalogs hold each chain ID at most once
Catalogs == {c \in SeqsUpTo(Chain, Cardinality(ChainIDs)) :
                \A i, j \in 1..Len(c) : c[i].ID = c[j].ID => i = j}
EventSeqs == SeqsUpTo(Event, MaxEvents)

\* ------------------------------------------------------------------------
\* Analyze
\* ------------------------------------------------------------------------

\* (mutation of GoDiv: rounds toward minus infinity)
GoDivFloor(a, b) == a \div b

\* Go's integer division truncates toward zero (b > 0 here)
GoDiv(a, b) == IF a >= 0 THEN a \div b ELSE -((-a) \div b)

\* "Collect all events related to the chain"
ChainEvents(chain, evs) == SelectSeq(evs, LAMBDA e : e.Chain = chain.ID)

\* (mutation of ExpectedCallback: the path index is off by one)
ExpectedCallbackShifted(path, i) == path[((i + 1) % Len(path)) + 1]

\* expected_callback := path[i % len(chain.Path)]   (i is 0-based)
ExpectedCallback(path, i) == path[(i % Len(path)) + 1]

\* ((i+1) % len(chain.Path)) == 0 && i > 0
CycleReached(path, i) == ((i + 1) % Len(path)) = 0 /\ i > 0

\* response_time of the cycle that ends at the 0-based index i
ResponseTime(path, ce, i) ==
    LET start_callback_index == i - Len(path) + 1
        end_callback_index == i
    IN  (ce[end_callback_index + 1].Start_us
           + ce[end_callback_index + 1].Duration_us)
        - ce[start_callback_index + 1].Start_us

\* The loop "for i, path := 0, chain.Path; i < len(chain_events); i++".
\* With an empty path the first iteration evaluates i % 0, a run-time panic.
RECURSIVE PathLoop(_, _, _, _, _)
PathLoop(path, ce, i, mismatch_count, response_times) ==
    IF i >= Len(ce)
    THEN [panic |-> FALSE, mismatch_count |-> mismatch_count,
          response_times |-> response_times]
    ELSE IF Len(path) = 0
    THEN [panic |-> TRUE, mismatch_count |-> mismatch_count,
          response_times |-> response_times]
    ELSE PathLoop(path, ce, i + 1,
            IF ExpectedCallback(path, i) # ce[i + 1].Callback
                THEN mismatch_count + 1 ELSE mismatch_count,
            IF CycleReached(path, i)
                THEN Append(response_times, ResponseTime(path, ce, i))
                ELSE response_times)

\* (mutation of StatsStep: the worst case is never raised)
StatsStepNoWorst(acc, rt) ==
    [bcrt |-> IF rt < acc.bcrt THEN rt ELSE acc.bcrt,
     wcrt |-> acc.wcrt,
     acrt |-> acc.acrt + rt]

\* One iteration of the loop that calculates the BCRT, WCRT and ACRT
StatsStep(acc, rt) ==
    [bcrt |-> IF rt < acc.bcrt THEN rt ELSE acc.bcrt,
     wcrt |-> IF rt > acc.wcrt THEN rt ELSE acc.wcrt,
     acrt |-> acc.acrt + rt]

RECURSIVE StatsLoop(_, _, _)
StatsLoop(response_times, i, acc) ==
    IF i >= Len(response_times) THEN acc
    ELSE StatsLoop(response_times, i + 1, StatsStep(acc, response_times[i + 1]))

\* The Result appended for a chain with a non-empty response_times
MakeResult(chain, response_times) ==
    LET acc == StatsLoop(response_times, 1,
                   [bcrt |-> response_times[1], wcrt |-> response_times[1],
                    acrt |-> response_times[1]])
    IN  [ID |-> chain.ID, WCRT_us |-> acc.wcrt,
         ACRT_us |-> GoDiv(acc.acrt, Len(response_times)),
         BCRT_us |-> acc.bcrt]

\* The messages of one iteration of the chain loop
MsgAnalyzing(chain, ce) == [msg |-> "Analyzing chain", a |-> chain.ID, b |-> Len(ce)]
MsgNoTimes(chain) == [msg |-> "No response times", a |-> chain.ID, b |-> 0]
MsgMismatch(count, ce) == [msg |-> "events did not occur as expected", a |-> count, b |-> Len(ce)]

\* The whole body of "for _, chain := range chains" for one chain
ChainBody(chain, evs) ==
    LET ce == ChainEvents(chain, evs)
        lp == PathLoop(chain.Path, ce, 0, 0, <<>>)
        rt == lp.response_times
        base == [ID |-> chain.ID, Path |-> chain.Path, chain_events |-> ce,
                 mismatch_count |-> lp.mismatch_count,
                 response_times |-> rt, panic |-> lp.panic]
    IN  IF lp.panic
        THEN [loc |-> base, out |-> <<>>, msgs |-> <<MsgAnalyzing(chain, ce)>>]
        ELSE IF Len(rt) = 0
        THEN [loc |-> base, out |-> <<>>,
              msgs |-> <<MsgAnalyzing(chain, ce), MsgNoTimes(chain)>>]
        ELSE [loc |-> base, out |-> <<MakeResult(chain, rt)>>,
              msgs |-> <<MsgAnalyzing(chain, ce)>> \o
                       (IF lp.mismatch_count > 0
                          THEN <<MsgMismatch(lp.mismatch_count, ce)>> ELSE <<>>)]

NoFile == [exists |-> FALSE, data |-> <<>>]

AIdle == /\ chains = <<>> /\ events = <<>> /\ ci = 0 /\ results = <<>>
         /\ stderr = <<>> /\ locals = <<>> /\ status = "idle"
FIdle == /\ fchain = [ID |-> 0, Path |-> <<>>] /\ fevents = <<>>
         /\ fflipped = <<>> /\ run1 = <<>> /\ run2 = <<>> /\ fpc = "idle"
RIdle == /\ fileLen = 0 /\ openOk = FALSE /\ failAt = 0 /\ file = <<>>
         /\ n = 0 /\ revents = <<>> /\ err = "nil" /\ rret = <<>>
         /\ rpc = "idle"
WIdle == /\ wargs = <<>> /\ cs = <<>> /\ wid = 0 /\ disk = NoFile
         /\ wret = "pending" /\ wpc = "idle"

\* Analyze is entered with a catalog and an event sequence
Init ==
    /\ chains \in Catalogs
    /\ events \in EventSeqs
    /\ ci = 1
    /\ results = <<>>
    /\ stderr = <<>>
    /\ locals = <<>>
    /\ status = "running"
    /\ FIdle /\ RIdle /\ WIdle

\* One iteration of "for _, chain := range chains"
AnalyzeChain ==
    /\ status = "running"
    /\ ci <= Len(chains)
    /\ LET b == ChainBody(chains[ci], events)
       IN  /\ locals' = Append(locals, b.loc)
           /\ stderr' = stderr \o b.msgs
           /\ results' = results \o b.out
           /\ status' = IF b.loc.panic THEN "panic" ELSE "running"
           /\ ci' = IF b.loc.panic THEN ci ELSE ci + 1
    /\ UNCHANGED <<chains, events, fvars, rvars, wvars>>

\* "return results"
AnalyzeReturn ==
    /\ status = "running"
    /\ ci > Len(chains)
    /\ status' = "done"
    /\ UNCHANGED <<chains, events, ci, results, stderr, locals, fvars, rvars, wvars>>

Next == AnalyzeChain \/ AnalyzeReturn

Spec == Init /\ [][Next]_vars

\* ------------------------------------------------------------------------
\* Two runs of Analyze: an input in perfect path order, and the same input
\* with the Callback of one matching event changed
\* ------------------------------------------------------------------------
FlipValues == Callbacks \cup {3}

\* the events of the chain follow its path cyclically
InPathOrder(chain, evs) ==
    LET ce == ChainEvents(chain, evs)
    IN  /\ Len(ce) >= 1
        /\ \A i \in 1..Len(ce) : ce[i].Callback = chain.Path[((i - 1) % Len(chain.Path)) + 1]

\* evs with the Callback of one event of the chain set to another value
OneFlips(chain, evs) ==
    {[evs EXCEPT ![p].Callback = v] :
        p \in {q \in 1..Len(evs) : evs[q].Chain = chain.ID},
        v \in FlipValues} \ {evs}

InitFlip ==
    /\ fchain \in {c \in Chain : Len(c.Path) >= 1}
    /\ fevents \in {evs \in EventSeqs : InPathOrder(fchain, evs)}
    /\ fflipped \in OneFlips(fchain, fevents)
    /\ run1 = <<>>
    /\ run2 = <<>>
    /\ fpc = "first"
    /\ AIdle /\ RIdle /\ WIdle

\* Analyze(<<fchain>>, fevents)
AnalyzeOriginal ==
    /\ fpc = "first"
    /\ run1' = ChainBody(fchain, fevents)
    /\ fpc' = "second"
    /\ UNCHANGED <<fchain, fevents, fflipped, run2, avars, rvars, wvars>>

\* Analyze(<<fchain>>, fflipped)
AnalyzeFlipped ==
    /\ fpc = "second"
    /\ run2' = ChainBody(fchain, fflipped)
    /\ fpc' = "done"
    /\ UNCHANGED <<fchain, fevents, fflipped, run1, avars, rvars, wvars>>

NextFlip == AnalyzeOriginal \/ AnalyzeFlipped

SpecFlip == InitFlip /\ [][NextFlip]_vars

\* ------------------------------------------------------------------------
\* ReadEvents and parse_event
\* ------------------------------------------------------------------------
\* A line is a sequence of symbols: "x" is a byte other than '{', "{" is
\* the opening brace, "B0" and "B1" are the text
\* "executor: e, chain: c, callback: b, start: s, duration: d}" of two
\* events, and "S" is such a text with a field missing or malformed.
Symbols == {"x", "{", "B0", "B1", "S"}
Bodies == {"B0", "B1"}
Scanned(b) ==
    IF b = "B0"
    THEN [Executor |-> 0, Chain |-> 0, Callback |-> 1, Start_us |-> 0, Duration_us |-> 2]
    ELSE [Executor |-> 0, Chain |-> 1, Callback |-> 2, Start_us |-> 4, Duration_us |-> -3]

\* what ReadLine hands out for one line of the file: its bytes, and whether
\* the line did not fit the reader's buffer (isPrefix)
FileLines == [bytes : SeqsUpTo(Symbols, MaxLineLen), prefix : BOOLEAN]

\* "Discard bytes until an opening brace is hit": the 0-based index of the
\* first '{', and 0 when there is none
Split(line) ==
    IF \E i \in 1..Len(line) : line[i] = "{"
    THEN (CHOOSE i \in 1..Len(line) :
              line[i] = "{" /\ \A j \in 1..(i - 1) : line[j] # "{") - 1
    ELSE 0

\* fmt.Sscanf(log, sfmt, ...): the five verbs and the literals of sfmt are
\* matched from the start of log; input after the closing brace is not read
Sscanf(log) ==
    IF Len(log) >= 2 /\ log[1] = "{" /\ log[2] \in Bodies
    THEN [matched |-> 5, err |-> "nil", event |-> Scanned(log[2])]
    ELSE [matched |-> 0, err |-> "input does not match format", event |-> Scanned("B0")]

parse_event(line) ==
    LET split == Split(line)
    IN  IF split >= Len(line) - 1
        THEN [ok |-> FALSE, err |-> "Opening delimiter not found!", event |-> Scanned("B0")]
        ELSE LET log == SubSeq(line, split + 1, Len(line))
                 sc == Sscanf(log)
             IN  IF sc.err # "nil" \/ sc.matched # 5
                 THEN [ok |-> FALSE, err |-> "Unable to match event format", event |-> sc.event]
                 ELSE [ok |-> TRUE, err |-> "nil", event |-> sc.event]

InitRead ==
    /\ fileLen \in 0..MaxLines
    /\ openOk \in BOOLEAN
    /\ failAt \in 0..(fileLen + 1)
    /\ file = <<>>
    /\ n = 0
    /\ revents = <<>>
    /\ err = "nil"
    /\ rret = <<>>
    /\ rpc = "open"
    /\ AIdle /\ FIdle /\ WIdle

\* "if file, err = os.Open(filepath); err != nil"
OpenFile ==
    /\ rpc = "open"
    /\ IF openOk
       THEN /\ err' = "nil" /\ n' = 1 /\ rpc' = "loop" /\ rret' = rret
       ELSE /\ err' = "open failed" /\ n' = n /\ rpc' = "returned"
            /\ rret' = [events |-> <<>>, err |-> "Unable to open", line |-> 0]
    /\ UNCHANGED <<fileLen, openOk, failAt, file, revents, avars, fvars, wvars>>

\* One iteration of "for n := 1; ; n++".  ReadLine's error is assigned to
\* the err declared by ":=" inside the loop body, not to the function's err.
ReadLineStep ==
    /\ rpc = "loop"
    /\ IF failAt = n \/ n > fileLen
       THEN \* "if nil != err { break }": a read error, or io.EOF
            /\ rpc' = "after"
            /\ UNCHANGED <<file, n, revents, rret>>
       ELSE \E line \in FileLines :
            /\ file' = Append(file, line)
            /\ IF line.prefix
               THEN /\ rret' = [events |-> <<>>, err |-> "too long for parser", line |-> n]
                    /\ rpc' = "returned"
                    /\ UNCHANGED <<n, revents>>
               ELSE LET parsed == parse_event(line.bytes)
                    IN  IF ~parsed.ok
                        THEN /\ rret' = [events |-> <<>>, err |-> "could not be parsed", line |-> n]
                             /\ rpc' = "returned"
                             /\ UNCHANGED <<n, revents>>
                        ELSE /\ revents' = Append(revents, parsed.event)
                             /\ n' = n + 1
                             /\ UNCHANGED <<rret, rpc>>
    /\ UNCHANGED <<fileLen, openOk, failAt, err, avars, fvars, wvars>>

\* "if (err != nil) && (err != io.EOF)" on the function's err, then
\* "return events, nil"
ReturnEvents ==
    /\ rpc = "after"
    /\ rret' = IF err # "nil" /\ err # "EOF"
               THEN [events |-> <<>>, err |-> "Exception when parsing", line |-> 0]
               ELSE [events |-> revents, err |-> "nil", line |-> 0]
    /\ rpc' = "returned"
    /\ UNCHANGED <<fileLen, openOk, failAt, file, n, revents, err, avars, fvars, wvars>>

NextRead == OpenFile \/ ReadLineStep \/ ReturnEvents

SpecRead == InitRead /\ [][NextRead]_vars

\* ------------------------------------------------------------------------
\* WriteChains
\* ------------------------------------------------------------------------
WriteArgs == [chains : SeqsUpTo({7}, MaxSlice), periods : SeqsUpTo({100}, MaxSlice),
              priorities : SeqsUpTo({1}, MaxSlice), paths : SeqsUpTo({<<1, 2>>}, MaxSlice),
              us : SeqsUpTo({50}, MaxSlice)]

\* random_seed, ppe, chain_avg_len, chain_merge_p, chain_sync_p, chain_variance
Provenance == [Random_seed |-> 42, PPE |-> FALSE, Avg_len |-> 2,
               Merge_p |-> 0, Sync_p |-> 0, Variance |-> 0]

\* json.Marshal(cs): one object per chain, fields in struct order
Marshal(c) ==
    [k \in 1..Len(c) |->
        <<"ID", c[k].ID, "Prio", c[k].Prio, "Path", c[k].Path,
          "Period_us", c[k].Period_us, "Utilisation", c[k].Utilisation,
          "Random_seed", c[k].Prov.Random_seed, "PPE", c[k].Prov.PPE,
          "Avg_len", c[k].Prov.Avg_len, "Merge_p", c[k].Prov.Merge_p,
          "Sync_p", c[k].Prov.Sync_p, "Variance", c[k].Prov.Variance>>]

InitWrite ==
    /\ wargs \in WriteArgs
    /\ cs = <<>>
    /\ wid = 0
    /\ disk = NoFile
    /\ wret = "pending"
    /\ wpc = "build"
    /\ AIdle /\ FIdle /\ RIdle

\* One iteration of "for id, _ := range chains": the other slices are
\* indexed by id, which faults when one of them is shorter
BuildChain ==
    /\ wpc = "build"
    /\ wid < Len(wargs.chains)
    /\ IF \/ wid >= Len(wargs.priorities) \/ wid >= Len(wargs.paths)
          \/ wid >= Len(wargs.periods) \/ wid >= Len(wargs.us)
       THEN /\ wpc' = "panic"
            /\ wret' = "index out of range"
            /\ UNCHANGED <<cs, wid>>
       ELSE /\ cs' = Append(cs, [ID |-> wid,
                                 Prio |-> wargs.priorities[wid + 1],
                                 Path |-> wargs.paths[wid + 1],
                                 Period_us |-> wargs.periods[wid + 1],
                                 Utilisation |-> wargs.us[wid + 1],
                                 Prov |-> Provenance])
            /\ wid' = wid + 1
            /\ UNCHANGED <<wpc, wret>>
    /\ UNCHANGED <<wargs, disk, avars, fvars, rvars>>

\* json.Marshal(cs), then "return ioutil.WriteFile(filepath, data, 0777)"
WriteFile ==
    /\ wpc = "build"
    /\ wid >= Len(wargs.chains)
    /\ \E written \in BOOLEAN :
          /\ disk' = IF written THEN [exists |-> TRUE, data |-> Marshal(cs)] ELSE disk
          /\ wret' = IF written THEN "nil" ELSE "write failed"
    /\ wpc' = "returned"
    /\ UNCHANGED <<wargs, cs, wid, avars, fvars, rvars>>

NextWrite == BuildChain \/ WriteFile

SpecWrite == InitWrite /\ [][NextWrite]_vars

\* ------------------------------------------------------------------------
\* Properties of Analyze
\* ------------------------------------------------------------------------
Analysed == 1..Len(locals)

\* the events follow the path cyclically
PerfectOrder(path, ce) ==
    \A i \in 0..(Len(ce) - 1) : ce[i + 1].Callback = path[(i % Len(path)) + 1]

\* the Results emitted for the chain with the given ID
ResultsOf(id) == SelectSeq(results, LAMBDA r : r.ID = id)

RECURSIVE SeqSum(_)
SeqSum(s) == IF s = <<>> THEN 0 ELSE Head(s) + SeqSum(Tail(s))
SeqMin(s) == CHOOSE x \in {s[i] : i \in 1..Len(s)} : \A i \in 1..Len(s) : x <= s[i]
SeqMax(s) == CHOOSE x \in {s[i] : i \in 1..Len(s)} : \A i \in 1..Len(s) : x >= s[i]

\* C1: a chain with path length L >= 1 and exactly k*L matching events in
\* perfect path order (k >= 1) gets exactly k response times, the j-th being
\* (Start_us + Duration_us of event j*L+L-1) - (Start_us of event j*L).
C1_PerfectCyclesYieldK ==
    \A c \in Analysed :
        LET l == locals[c]
            L == Len(l.Path)
            ce == l.chain_events
        IN  (L >= 1 /\ Len(ce) >= 1 /\ Len(ce) % L = 0 /\ PerfectOrder(l.Path, ce))
            => /\ Len(l.response_times) = Len(ce) \div L
               /\ \A j \in 0..((Len(ce) \div L) - 1) :
                     l.response_times[j + 1] =
                        (ce[j * L + L].Start_us + ce[j * L + L].Duration_us)
                        - ce[j * L + 1].Start_us

\* C2: a chain with path length L >= 1 and n matching events gets a Result
\* if and only if n >= L, and then exactly one.
C2_ResultIffEnoughEvents ==
    \A c \in Analysed :
        LET l == locals[c]
            L == Len(l.Path)
        IN  L >= 1 =>
              Len(ResultsOf(l.ID)) = (IF Len(l.chain_events) >= L THEN 1 ELSE 0)

\* C3: an empty Path is caught before any modulo or index operation on the
\* path: Analyze never ends in a division by zero.
C3_EmptyPathNeverFaults ==
    \A c \in Analysed : Len(locals[c].Path) = 0 => ~locals[c].panic

\* C5: the Result IDs are the catalog's chain IDs restricted to the chains
\* that completed at least one cycle (L >= 1 and at least L matching
\* events), in catalog order.
CompletedCycle(chain) ==
    Len(chain.Path) >= 1 /\ Len(ChainEvents(chain, events)) >= Len(chain.Path)

C5_CatalogOrderWithGaps ==
    status = "done" =>
        [k \in 1..Len(results) |-> results[k].ID] =
        LET done == SelectSeq(chains, CompletedCycle)
        IN  [k \in 1..Len(done) |-> done[k].ID]

\* C6: every emitted Result has BCRT_us <= ACRT_us <= WCRT_us.
C6_BestAvgWorstOrdered ==
    \A k \in 1..Len(results) :
        results[k].BCRT_us <= results[k].ACRT_us
        /\ results[k].ACRT_us <= results[k].WCRT_us

C6_Witness ==
    \E k \in 1..Len(results) :
        results[k].BCRT_us < results[k].ACRT_us
        /\ results[k].ACRT_us < results[k].WCRT_us

\* the local variables of the chain a Result belongs to
LocalsOf(id) == locals[CHOOSE c \in Analysed : locals[c].ID = id]

\* C7 (as claimed): every Result has BCRT_us = min, WCRT_us = max and
\* ACRT_us = floor(sum / count) of the chain's response times, for any
\* integer Start_us and Duration_us.
C7_FloorAverage ==
    \A k \in 1..Len(results) :
        LET rt == LocalsOf(results[k].ID).response_times
        IN  /\ results[k].BCRT_us = SeqMin(rt)
            /\ results[k].WCRT_us = SeqMax(rt)
            /\ results[k].ACRT_us = SeqSum(rt) \div Len(rt)

\* C7 (amended): every Result has BCRT_us = min, WCRT_us = max and ACRT_us =
\* sum / count rounded toward zero: the remainder sum - ACRT_us * count is
\* smaller in magnitude than count and is zero or has the sign of the sum.
C7_TruncatedAverage ==
    \A k \in 1..Len(results) :
        LET rt == LocalsOf(results[k].ID).response_times
            rem == SeqSum(rt) - results[k].ACRT_us * Len(rt)
        IN  /\ results[k].BCRT_us = SeqMin(rt)
            /\ results[k].WCRT_us = SeqMax(rt)
            /\ rem < Len(rt) /\ -rem < Len(rt)
            /\ (rem > 0 => SeqSum(rt) > 0)
            /\ (rem < 0 => SeqSum(rt) < 0)

C7_Witness ==
    \E k \in 1..Len(results) :
        LET rt == LocalsOf(results[k].ID).response_times
        IN  /\ SeqSum(rt) < 0
            /\ SeqSum(rt) % Len(rt) # 0
            /\ results[k].ACRT_us = (SeqSum(rt) \div Len(rt)) + 1

\* the messages written while the c-th chain of the run was analysed
AnalyzingAt(c) ==
    CHOOSE p \in 1..Len(stderr) :
        /\ stderr[p].msg = "Analyzing chain"
        /\ Cardinality({q \in 1..p : stderr[q].msg = "Analyzing chain"}) = c
MessagesOf(c) ==
    {stderr[p] : p \in {q \in AnalyzingAt(c)..Len(stderr) :
        Cardinality({m \in 1..q : stderr[m].msg = "Analyzing chain"}) = c}}

\* C9: a chain whose mismatch counter is nonzero after its events were
\* examined has the mismatch diagnostic (count over events) emitted, also
\* when it has no response time.
C9_MismatchAlwaysReported ==
    \A c \in Analysed :
        locals[c].mismatch_count > 0 =>
            MsgMismatch(locals[c].mismatch_count, locals[c].chain_events)
                \in MessagesOf(c)

\* ------------------------------------------------------------------------
\* Properties of the two runs
\* ------------------------------------------------------------------------
\* C8: against the run on the input in perfect path order, the run on the
\* input with one Callback changed counts exactly one mismatch more and
\* computes the same response times and the same Result.
C8_OneFlipOneMismatch ==
    fpc = "done" =>
        /\ run2.loc.mismatch_count = run1.loc.mismatch_count + 1
        /\ run2.loc.response_times = run1.loc.response_times
        /\ run2.out = run1.out

C8_Witness ==
    /\ fpc = "done"
    /\ Len(fchain.Path) = 2
    /\ run1.loc.mismatch_count = 0
    /\ run2.loc.mismatch_count = 1
    /\ Len(run2.out) = 1
    /\ fflipped # fevents

\* ------------------------------------------------------------------------
\* Properties of ReadEvents
\* ------------------------------------------------------------------------
\* C4: ReadEvents returns either an error with an empty sequence (a failing
\* line reported with its 1-based number), or no error with exactly one
\* Event per line of the whole file, in file order.
C4_AllOrNothing ==
    rpc = "returned" =>
        \/ /\ rret.err # "nil"
           /\ rret.events = <<>>
           /\ (rret.err \in {"too long for parser", "could not be parsed"}
                 => rret.line = Len(file))
        \/ /\ rret.err = "nil"
           /\ Len(rret.events) = fileLen
           /\ \A i \in 1..fileLen :
                 /\ parse_event(file[i].bytes).ok
                 /\ rret.events[i] = parse_event(file[i].bytes).event

\* ------------------------------------------------------------------------
\* Properties of WriteChains
\* ------------------------------------------------------------------------
SameLengths(a) ==
    /\ Len(a.periods) = Len(a.chains) /\ Len(a.priorities) = Len(a.chains)
    /\ Len(a.paths) = Len(a.chains) /\ Len(a.us) = Len(a.chains)

\* C10: with slices of different lengths WriteChains returns an error
\* before it builds or writes a chain; it writes no file and does not end
\* in an index fault.
C10_MismatchedLengthsFailFast ==
    (wpc # "idle" /\ ~SameLengths(wargs)) =>
        /\ wpc # "panic"
        /\ cs = <<>>
        /\ disk = NoFile
        /\ (wpc = "returned" => wret # "nil")

====
